---------------------------- MODULE Spec2Model ----------------------------
(***************************************************************************)
(* Model of the input-method service of src/src/arc_input_method.rs        *)
(* (IMServiceArc): the pending/current protocol states, the serial, the    *)
(* event handlers, the requests and the read accessors.                    *)
(*                                                                         *)
(* Every handler and request runs with the Mutex of the service held       *)
(* (im_service.lock().unwrap() in assign_filter, lines 106-125), so one    *)
(* action of this module is one whole invocation.  A Rust panic inside an  *)
(* invocation is recorded in `fault`; it poisons the Mutex, every later    *)
(* lock().unwrap() panics in turn, and so no action is enabled afterwards. *)
(*                                                                         *)
(* The threads that make the invocations, the Mutex they take and their    *)
(* position inside an invocation are the subject of the second part of the *)
(* module (NextThreads); there one invocation is several steps.            *)
(*                                                                         *)
(* Text is a sequence of UTF-8 bytes.  The alphabet is 'a' (one byte, 97)  *)
(* and 'e-acute' (two bytes, 195 169).                                     *)
(***************************************************************************)
EXTENDS Integers, Sequences, FiniteSets, TLC

VARIABLES pending, current, serial, im, out, fault, commits, lock, thread

vars == <<pending, current, serial, im, out, fault, commits, lock, thread>>

(***************************************************************************)
(* Bounds of the model.                                                    *)
(***************************************************************************)
\* longest surrounding text, in bytes
MaxLen == 2
\* longest surrounding text, in bytes, where the content type and the change
\* cause vary as well
MaxMetaLen == 1
\* successful commits explored from the initial state
MaxCommits == 2

(***************************************************************************)
(* UTF-8 text, as Rust's String and str handle it.                         *)
(***************************************************************************)
CharA == <<97>>
CharE == <<195, 169>>
Chars == {CharA, CharE}

RECURSIVE StringsUpTo(_)
StringsUpTo(n) ==
    IF n = 0 THEN {<< >>}
    ELSE LET shorter == StringsUpTo(n - 1)
         IN  shorter \cup {s \o c : s \in shorter, c \in Chars}

\* every valid String of at most n bytes
Strings(n) == {s \in StringsUpTo(n) : Len(s) <= n}

\* a UTF-8 continuation byte (10xxxxxx)
IsContinuation(b) == b >= 128 /\ b < 192

\* str::is_char_boundary
is_char_boundary(s, index) ==
    \/ index = 0
    \/ index = Len(s)
    \/ index < Len(s) /\ ~IsContinuation(s[index + 1])

\* str::split_at, defined where it does not panic
split_at(s, mid) == <<SubSeq(s, 1, mid), SubSeq(s, mid + 1, Len(s))>>

\* insert_str that loses what followed idx
insert_str_drops_tail(s, idx, text) == SubSeq(s, 1, idx) \o text

\* String::insert_str, defined where it does not panic
insert_str(s, idx, text) == SubSeq(s, 1, idx) \o text \o SubSeq(s, idx + 1, Len(s))

\* String::pop: removes the last char (all of its bytes); no effect on ""
pop(s) ==
    IF s = << >> THEN s
    ELSE LET start == CHOOSE i \in 0..(Len(s) - 1) :
                          /\ is_char_boundary(s, i)
                          /\ \A j \in (i + 1)..(Len(s) - 1) : ~is_char_boundary(s, j)
         IN  SubSeq(s, 1, start)

\* for _ in 0..n { s.pop(); }
RECURSIVE pop_n(_, _)
pop_n(s, n) == IF n = 0 \/ s = << >> THEN s ELSE pop_n(pop(s), n - 1)

\* s.chars().skip(n) collected into a String
RECURSIVE chars_skip(_, _)
chars_skip(s, n) ==
    IF n = 0 \/ s = << >> THEN s
    ELSE LET next == CHOOSE i \in 1..Len(s) :
                         /\ is_char_boundary(s, i)
                         /\ \A j \in 1..(i - 1) : ~is_char_boundary(s, j)
         IN  chars_skip(SubSeq(s, next + 1, Len(s)), n - 1)

Min(a, b) == IF a <= b THEN a ELSE b

(***************************************************************************)
(* Wrapping<u32>, kept as two 16-bit limbs (value = hi * 2^16 + lo).       *)
(***************************************************************************)
Limb == 256 * 256

Zero32 == [hi |-> 0, lo |-> 0]

\* x + 1 on a counter that is not Wrapping
add_one_unwrapped(x) ==
    IF x.lo + 1 < Limb THEN [hi |-> x.hi, lo |-> x.lo + 1]
    ELSE [hi |-> x.hi + 1, lo |-> 0]

\* Wrapping(x) + Wrapping(1u32)
wrapping_add_one(x) ==
    IF x.lo + 1 < Limb THEN [hi |-> x.hi, lo |-> x.lo + 1]
    ELSE [hi |-> (x.hi + 1) % Limb, lo |-> 0]

(***************************************************************************)
(* IMProtocolState                                                         *)
(***************************************************************************)
IMProtocolState_default ==
    [ surrounding_text  |-> << >>,
      cursor            |-> 0,
      content_hint      |-> "None",
      content_purpose   |-> "Normal",
      text_change_cause |-> "InputMethod",
      active            |-> FALSE ]

(***************************************************************************)
(* What one invocation returned, the protocol requests it sent on `im`     *)
(* and the collaborator notifications it fired, in order.                  *)
(***************************************************************************)
Out(result, requests, notifications) ==
    [result |-> result, requests |-> requests, notifications |-> notifications]

NoOut == Out("none", << >>, << >>)

ReqCommitString(text) == [req |-> "commit_string", text |-> text]
ReqDelete(before, after) ==
    [req |-> "delete_surrounding_text", before |-> before, after |-> after]
ReqCommit(s) == [req |-> "commit", serial |-> s]
ReqDestroy == [req |-> "destroy"]

TextChanged(left, right) == [call |-> "text_changed", left |-> left, right |-> right]
ActivateIm == [call |-> "activate_im"]
DeactivateIm == [call |-> "deactivate_im"]
SetHintPurpose(hint, purpose) ==
    [call |-> "set_hint_purpose", hint |-> hint, purpose |-> purpose]

(***************************************************************************)
(* The threads: the one that delivers the events of the server and the     *)
(* ones that call the requests and the reads.  thread[t] is where t stands *)
(* in its invocation and `lock` is the holder of the Mutex.                *)
(***************************************************************************)
Callers == {"caller1", "caller2"}
Threads == {"event"} \cup Callers

Op(name, text, n, m) == [name |-> name, text |-> text, n |-> n, m |-> m]
NoOp == Op("none", << >>, 0, 0)

\* between two invocations
Idle == [at |-> "idle", op |-> NoOp]

(***************************************************************************)
(* IMServiceArc::new                                                       *)
(***************************************************************************)
Init ==
    /\ pending = IMProtocolState_default
    /\ current = IMProtocolState_default
    /\ serial = Zero32
    /\ im = "alive"
    /\ out = NoOut
    /\ fault = "none"
    /\ commits = Zero32
    /\ lock = "free"
    /\ thread = [t \in Threads |-> Idle]

(***************************************************************************)
(* Inputs: what the server sends and what the callers pass.                *)
(***************************************************************************)
\* a surrounding_text event carries any text with any cursor, in range or not
ServerCursors(text) == 0..(Len(text) + 1)
\* the cursors of a well-formed surrounding_text event
ValidCursors(text) == {c \in 0..Len(text) : is_char_boundary(text, c)}
DefaultContentTypes == {<<"None", "Normal">>}
ContentTypes == {<<"None", "Normal">>, <<"Completion", "Password">>}
DefaultChangeCauses == {"InputMethod"}
ChangeCauses == {"InputMethod", "Other"}
CommitTexts(n) == Strings(n) \ {<< >>}
DeleteCounts == {0, 1, 1000000}

\* the part of the run the model explores: MaxCommits commits from serial 0,
\* or from the last commit before the serial wraps
CommitBudget ==
    \/ commits.hi = 0 /\ commits.lo < MaxCommits
    \/ commits.hi = Limb - 1 /\ commits.lo = Limb - 1
    \/ commits.hi = Limb /\ commits.lo + 1 < MaxCommits

\* the count of the commit requests sent since IMServiceArc::new, never wrapped
CountCommit(n) ==
    IF n.lo + 1 < Limb THEN [hi |-> n.hi, lo |-> n.lo + 1]
    ELSE [hi |-> n.hi + 1, lo |-> 0]

(***************************************************************************)
(* Helpers of the requests.                                                *)
(***************************************************************************)
\* limit_before_after without the limit on `after`
limit_before_after_unlimited_after(p, before, after) ==
    << Min(p.cursor, before), after >>

\* limit_before_after, defined where len() - cursor_position does not overflow
limit_before_after(p, before, after) ==
    LET cursor_position == p.cursor
    IN  << Min(cursor_position, before),
           Min(Len(p.surrounding_text) - cursor_position, after) >>

\* u32::saturating_add; every operand of this model is far below 2^31, so the
\* sum stays below u32::MAX and is returned as it is
saturating_add(a, b) == a + b

\* limit_before_after of lib.rs (u32 counts), defined where
\* len() as u32 - cursor_position does not overflow
limit_before_after_lib(p, before, after) ==
    LET cursor_position == p.cursor
    IN  << IF cursor_position > before THEN before ELSE cursor_position,
           IF saturating_add(cursor_position, after) <= Len(p.surrounding_text)
           THEN after
           ELSE Len(p.surrounding_text) - cursor_position >>

\* update_cursor_and_surrounding_text, defined where split_at does not panic
update_cursor_and_surrounding_text(p, before, after) ==
    LET cursor_position == p.cursor
        halves == split_at(p.surrounding_text, cursor_position)
        string_left_of_cursor == pop_n(halves[1], before)
        string_right_of_cursor == chars_skip(halves[2], after)
    IN  [p EXCEPT !.surrounding_text = string_left_of_cursor \o string_right_of_cursor,
                  !.cursor = Len(string_left_of_cursor)]

\* pending_becomes_current that tells the visibility connector first
pending_becomes_current_visibility_first(cur, pen) ==
    LET active_changed == cur.active # pen.active
        text_changed == cur.surrounding_text # pen.surrounding_text
        panics == text_changed /\ ~is_char_boundary(pen.surrounding_text, pen.cursor)
        halves == split_at(pen.surrounding_text, pen.cursor)
        text_calls == IF text_changed THEN <<TextChanged(halves[1], halves[2])>>
                      ELSE << >>
        active_calls ==
            IF ~active_changed THEN << >>
            ELSE IF pen.active
                 THEN <<ActivateIm, SetHintPurpose(pen.content_hint, pen.content_purpose)>>
                 ELSE <<DeactivateIm>>
    IN  [ current       |-> pen,
          notifications |-> IF panics THEN active_calls ELSE active_calls \o text_calls,
          fault         |-> IF panics THEN "split_at" ELSE "none" ]

\* pending_becomes_current that copies every field but the cursor
pending_becomes_current_keeps_cursor(cur, pen) ==
    LET active_changed == cur.active # pen.active
        text_changed == cur.surrounding_text # pen.surrounding_text
        panics == text_changed /\ ~is_char_boundary(pen.surrounding_text, pen.cursor)
        halves == split_at(pen.surrounding_text, pen.cursor)
        text_calls == IF text_changed THEN <<TextChanged(halves[1], halves[2])>>
                      ELSE << >>
        active_calls ==
            IF ~active_changed THEN << >>
            ELSE IF pen.active
                 THEN <<ActivateIm, SetHintPurpose(pen.content_hint, pen.content_purpose)>>
                 ELSE <<DeactivateIm>>
    IN  [ current       |-> [pen EXCEPT !.cursor = cur.cursor],
          notifications |-> IF panics THEN << >> ELSE text_calls \o active_calls,
          fault         |-> IF panics THEN "split_at" ELSE "none" ]

\* pending_becomes_current: the new current, the notifications fired and the
\* panic, if any, of split_at
pending_becomes_current(cur, pen) ==
    LET active_changed == cur.active # pen.active
        text_changed == cur.surrounding_text # pen.surrounding_text
        panics == text_changed /\ ~is_char_boundary(pen.surrounding_text, pen.cursor)
        halves == split_at(pen.surrounding_text, pen.cursor)
        text_calls == IF text_changed THEN <<TextChanged(halves[1], halves[2])>>
                      ELSE << >>
        active_calls ==
            IF ~active_changed THEN << >>
            ELSE IF pen.active
                 THEN <<ActivateIm, SetHintPurpose(pen.content_hint, pen.content_purpose)>>
                 ELSE <<DeactivateIm>>
    IN  [ current       |-> pen,
          notifications |-> IF panics THEN << >> ELSE text_calls \o active_calls,
          fault         |-> IF panics THEN "split_at" ELSE "none" ]

(***************************************************************************)
(* Requests                                                                *)
(***************************************************************************)
commit_string(text) ==
    /\ fault = "none"
    /\ IF ~current.active
       THEN /\ out' = Out("NotActive", << >>, << >>)
            /\ UNCHANGED <<pending, fault>>
       ELSE IF ~is_char_boundary(pending.surrounding_text, pending.cursor)
       THEN /\ fault' = "insert_str"
            /\ out' = Out("panic", << >>, << >>)
            /\ UNCHANGED pending
       ELSE /\ pending' = [pending EXCEPT
                   !.surrounding_text = insert_str(@, pending.cursor, text),
                   !.cursor = @ + Len(text)]
            /\ out' = Out("Ok", <<ReqCommitString(text)>>, << >>)
            /\ UNCHANGED fault
    /\ UNCHANGED <<current, serial, im, commits>>

delete_surrounding_text(before, after) ==
    /\ fault = "none"
    /\ IF ~current.active
       THEN /\ out' = Out("NotActive", << >>, << >>)
            /\ UNCHANGED <<pending, fault>>
       ELSE IF pending.cursor > Len(pending.surrounding_text)
       THEN \* len() - cursor_position overflows: a panic with overflow checks,
            \* a wrapped value and then the panic of split_at without them
            /\ fault' \in {"sub_overflow", "split_at"}
            /\ out' = Out("panic", << >>, << >>)
            /\ UNCHANGED pending
       ELSE IF ~is_char_boundary(pending.surrounding_text, pending.cursor)
       THEN /\ fault' = "split_at"
            /\ out' = Out("panic", << >>, << >>)
            /\ UNCHANGED pending
       ELSE LET limited == limit_before_after(pending, before, after)
            IN  /\ pending' = update_cursor_and_surrounding_text(
                                  pending, limited[1], limited[2])
                /\ out' = Out("Ok", <<ReqDelete(limited[1], limited[2])>>, << >>)
                /\ UNCHANGED fault
    /\ UNCHANGED <<current, serial, im, commits>>

\* commit, looking at pending.active instead of current.active
commit_checks_pending ==
    /\ fault = "none"
    /\ IF ~pending.active
       THEN /\ out' = Out("NotActive", << >>, << >>)
            /\ UNCHANGED <<current, serial, fault, commits>>
       ELSE LET promoted == pending_becomes_current(current, pending)
            IN  /\ serial' = wrapping_add_one(serial)
                /\ commits' = CountCommit(commits)
                /\ current' = promoted.current
                /\ fault' = promoted.fault
                /\ out' = Out(IF promoted.fault = "none" THEN "Ok" ELSE "panic",
                              <<ReqCommit(serial)>>, promoted.notifications)
    /\ UNCHANGED <<pending, im>>

commit ==
    /\ fault = "none"
    /\ IF ~current.active
       THEN /\ out' = Out("NotActive", << >>, << >>)
            /\ UNCHANGED <<current, serial, fault, commits>>
       ELSE LET promoted == pending_becomes_current(current, pending)
            IN  /\ serial' = wrapping_add_one(serial)
                /\ commits' = CountCommit(commits)
                /\ current' = promoted.current
                /\ fault' = promoted.fault
                /\ out' = Out(IF promoted.fault = "none" THEN "Ok" ELSE "panic",
                              <<ReqCommit(serial)>>, promoted.notifications)
    /\ UNCHANGED <<pending, im>>

(***************************************************************************)
(* Read accessors                                                          *)
(***************************************************************************)
is_active == current.active

\* whether the split_at of get_surrounding_text panics
get_surrounding_text_panics ==
    ~is_char_boundary(pending.surrounding_text, current.cursor)

\* the (left, right) pair returned by get_surrounding_text, where it returns
get_surrounding_text == split_at(pending.surrounding_text, current.cursor)

IsActive ==
    /\ fault = "none"
    /\ UNCHANGED <<pending, current, serial, im, out, fault, commits>>

\* get_surrounding_text that moves the text out of pending (mem::take)
GetSurroundingText_takes ==
    /\ fault = "none"
    /\ IF get_surrounding_text_panics
       THEN /\ fault' = "split_at"
            /\ out' = Out("panic", << >>, << >>)
            /\ UNCHANGED pending
       ELSE /\ pending' = [pending EXCEPT !.surrounding_text = << >>]
            /\ UNCHANGED <<fault, out>>
    /\ UNCHANGED <<current, serial, im, commits>>

GetSurroundingText ==
    /\ fault = "none"
    /\ IF get_surrounding_text_panics
       THEN /\ fault' = "split_at"
            /\ out' = Out("panic", << >>, << >>)
       ELSE UNCHANGED <<fault, out>>
    /\ UNCHANGED <<pending, current, serial, im, commits>>

(***************************************************************************)
(* Event handlers                                                          *)
(***************************************************************************)
\* handle_activate that makes the session active at once, without a done
handle_activate_enables_at_once ==
    /\ fault = "none"
    /\ pending' = [IMProtocolState_default EXCEPT !.active = TRUE]
    /\ current' = [current EXCEPT !.active = TRUE]
    /\ out' = NoOut
    /\ UNCHANGED <<serial, im, fault, commits>>

\* handle_activate that only sets the flag and keeps the rest of pending
handle_activate_keeps_pending ==
    /\ fault = "none"
    /\ pending' = [pending EXCEPT !.active = TRUE]
    /\ out' = NoOut
    /\ UNCHANGED <<current, serial, im, fault, commits>>

handle_activate ==
    /\ fault = "none"
    /\ pending' = [IMProtocolState_default EXCEPT !.active = TRUE]
    /\ out' = NoOut
    /\ UNCHANGED <<current, serial, im, fault, commits>>

\* handle_deactivate that resets pending to the default state
handle_deactivate_resets_pending ==
    /\ fault = "none"
    /\ pending' = IMProtocolState_default
    /\ out' = NoOut
    /\ UNCHANGED <<current, serial, im, fault, commits>>

handle_deactivate ==
    /\ fault = "none"
    /\ pending' = [pending EXCEPT !.active = FALSE]
    /\ out' = NoOut
    /\ UNCHANGED <<current, serial, im, fault, commits>>

handle_surrounding_text(text, cursor, anchor) ==
    /\ fault = "none"
    /\ pending' = [pending EXCEPT !.surrounding_text = text, !.cursor = cursor]
    /\ out' = NoOut
    /\ UNCHANGED <<current, serial, im, fault, commits>>

handle_text_change_cause(cause) ==
    /\ fault = "none"
    /\ pending' = [pending EXCEPT !.text_change_cause = cause]
    /\ out' = NoOut
    /\ UNCHANGED <<current, serial, im, fault, commits>>

handle_content_type(hint, purpose) ==
    /\ fault = "none"
    /\ pending' = [pending EXCEPT !.content_hint = hint, !.content_purpose = purpose]
    /\ out' = NoOut
    /\ UNCHANGED <<current, serial, im, fault, commits>>

\* handle_done that counts the promotion in the serial, as commit does
handle_done_counts ==
    /\ fault = "none"
    /\ LET promoted == pending_becomes_current(current, pending)
       IN  /\ current' = promoted.current
           /\ fault' = promoted.fault
           /\ out' = Out(IF promoted.fault = "none" THEN "none" ELSE "panic",
                         << >>, promoted.notifications)
    /\ serial' = wrapping_add_one(serial)
    /\ UNCHANGED <<pending, im, commits>>

handle_done ==
    /\ fault = "none"
    /\ LET promoted == pending_becomes_current(current, pending)
       IN  /\ current' = promoted.current
           /\ fault' = promoted.fault
           /\ out' = Out(IF promoted.fault = "none" THEN "none" ELSE "panic",
                         << >>, promoted.notifications)
    /\ UNCHANGED <<pending, serial, im, commits>>

\* handle_unavailable that does not tell the visibility connector
handle_unavailable_silent ==
    /\ fault = "none"
    /\ im' = "destroyed"
    /\ current' = [current EXCEPT !.active = FALSE]
    /\ out' = Out("none", <<ReqDestroy>>, << >>)
    /\ UNCHANGED <<pending, serial, fault, commits>>

\* handle_unavailable that resets pending as well
handle_unavailable_resets_pending ==
    /\ fault = "none"
    /\ im' = "destroyed"
    /\ current' = [current EXCEPT !.active = FALSE]
    /\ pending' = IMProtocolState_default
    /\ out' = Out("none", <<ReqDestroy>>, <<DeactivateIm>>)
    /\ UNCHANGED <<serial, fault, commits>>

handle_unavailable ==
    /\ fault = "none"
    /\ im' = "destroyed"
    /\ current' = [current EXCEPT !.active = FALSE]
    /\ out' = Out("none", <<ReqDestroy>>, <<DeactivateIm>>)
    /\ UNCHANGED <<pending, serial, fault, commits>>

(***************************************************************************)
(* The service under any sequence of events and calls.  The text stays     *)
(* within the bound and the successful commits within CommitBudget.        *)
(***************************************************************************)
Fits(text, n) == Len(pending.surrounding_text) + Len(text) <= n

\* one invocation after the other: the Mutex is free before and after each
\* of them and no thread is seen inside one
Sequential == lock = "free" /\ UNCHANGED <<lock, thread>>

\* texts of up to MaxLen bytes; content type and change cause at their defaults
Next ==
    \/ Sequential /\ handle_activate
    \/ Sequential /\ handle_deactivate
    \/ Sequential /\ \E text \in Strings(MaxLen) : \E cursor \in ServerCursors(text) :
           handle_surrounding_text(text, cursor, cursor)
    \/ Sequential /\ \E cause \in DefaultChangeCauses : handle_text_change_cause(cause)
    \/ Sequential /\ \E ct \in DefaultContentTypes : handle_content_type(ct[1], ct[2])
    \/ Sequential /\ handle_done
    \/ Sequential /\ handle_unavailable
    \/ Sequential /\ \E text \in CommitTexts(MaxLen) : Fits(text, MaxLen) /\ commit_string(text)
    \/ Sequential /\ \E before \in DeleteCounts, after \in DeleteCounts :
           delete_surrounding_text(before, after)
    \/ Sequential /\ (current.active => CommitBudget) /\ commit
    \/ Sequential /\ IsActive
    \/ Sequential /\ GetSurroundingText

Spec == Init /\ [][Next]_vars

\* as Next, every surrounding_text event well-formed
NextValid ==
    \/ Sequential /\ handle_activate
    \/ Sequential /\ handle_deactivate
    \/ Sequential /\ \E text \in Strings(MaxLen) : \E cursor \in ValidCursors(text) :
           handle_surrounding_text(text, cursor, cursor)
    \/ Sequential /\ \E cause \in DefaultChangeCauses : handle_text_change_cause(cause)
    \/ Sequential /\ \E ct \in DefaultContentTypes : handle_content_type(ct[1], ct[2])
    \/ Sequential /\ handle_done
    \/ Sequential /\ handle_unavailable
    \/ Sequential /\ \E text \in CommitTexts(MaxLen) : Fits(text, MaxLen) /\ commit_string(text)
    \/ Sequential /\ \E before \in DeleteCounts, after \in DeleteCounts :
           delete_surrounding_text(before, after)
    \/ Sequential /\ (current.active => CommitBudget) /\ commit
    \/ Sequential /\ IsActive
    \/ Sequential /\ GetSurroundingText

SpecValid == Init /\ [][NextValid]_vars

\* texts of up to MaxMetaLen bytes; every content type and change cause
NextMeta ==
    \/ Sequential /\ handle_activate
    \/ Sequential /\ handle_deactivate
    \/ Sequential /\ \E text \in Strings(MaxMetaLen) : \E cursor \in ServerCursors(text) :
           handle_surrounding_text(text, cursor, cursor)
    \/ Sequential /\ \E cause \in ChangeCauses : handle_text_change_cause(cause)
    \/ Sequential /\ \E ct \in ContentTypes : handle_content_type(ct[1], ct[2])
    \/ Sequential /\ handle_done
    \/ Sequential /\ handle_unavailable
    \/ Sequential /\ \E text \in CommitTexts(MaxMetaLen) :
           Fits(text, MaxMetaLen) /\ commit_string(text)
    \/ Sequential /\ \E before \in DeleteCounts, after \in DeleteCounts :
           delete_surrounding_text(before, after)
    \/ Sequential /\ (current.active => CommitBudget) /\ commit
    \/ Sequential /\ IsActive
    \/ Sequential /\ GetSurroundingText

SpecMeta == Init /\ [][NextMeta]_vars

\* a session one commit before its serial wraps: activate, done and
\* 2^32 - 1 commits after IMServiceArc::new
WrapStart == [hi |-> Limb - 1, lo |-> Limb - 1]

InitWrap ==
    /\ pending = [IMProtocolState_default EXCEPT !.active = TRUE]
    /\ current = [IMProtocolState_default EXCEPT !.active = TRUE]
    /\ serial = WrapStart
    /\ im = "alive"
    /\ out = Out("Ok", <<ReqCommit([hi |-> Limb - 1, lo |-> Limb - 2])>>, << >>)
    /\ fault = "none"
    /\ commits = WrapStart
    /\ lock = "free"
    /\ thread = [t \in Threads |-> Idle]

\* the session from its start and from just before the wrap
SpecWrap == (Init \/ InitWrap) /\ [][Next]_vars

(***************************************************************************)
(* The service under threads.  An invocation is im_service.lock().unwrap() *)
(* followed by the method (assign_filter, lines 106-125, for the events;   *)
(* the facade of lib.rs, lines 390-423, for the requests and the reads):   *)
(* the thread waits for the Mutex, takes it, runs the method in two steps  *)
(* if it is a request (the match on current.active, then the arm chosen)   *)
(* and in one step otherwise, and drops the guard when the method returns  *)
(* or panics.                                                              *)
(***************************************************************************)
\* the true arm of commit_string (lines 143-154)
commit_string_active(text) ==
    /\ IF ~is_char_boundary(pending.surrounding_text, pending.cursor)
       THEN /\ fault' = "insert_str"
            /\ out' = Out("panic", << >>, << >>)
            /\ UNCHANGED pending
       ELSE /\ pending' = [pending EXCEPT
                   !.surrounding_text = insert_str(@, pending.cursor, text),
                   !.cursor = @ + Len(text)]
            /\ out' = Out("Ok", <<ReqCommitString(text)>>, << >>)
            /\ UNCHANGED fault
    /\ UNCHANGED <<current, serial, im, commits>>

\* the true arm of delete_surrounding_text (lines 178-186)
delete_surrounding_text_active(before, after) ==
    /\ IF pending.cursor > Len(pending.surrounding_text)
       THEN /\ fault' \in {"sub_overflow", "split_at"}
            /\ out' = Out("panic", << >>, << >>)
            /\ UNCHANGED pending
       ELSE IF ~is_char_boundary(pending.surrounding_text, pending.cursor)
       THEN /\ fault' = "split_at"
            /\ out' = Out("panic", << >>, << >>)
            /\ UNCHANGED pending
       ELSE LET limited == limit_before_after(pending, before, after)
            IN  /\ pending' = update_cursor_and_surrounding_text(
                                  pending, limited[1], limited[2])
                /\ out' = Out("Ok", <<ReqDelete(limited[1], limited[2])>>, << >>)
                /\ UNCHANGED fault
    /\ UNCHANGED <<current, serial, im, commits>>

\* the true arm of commit (lines 199-207)
commit_active ==
    /\ LET promoted == pending_becomes_current(current, pending)
       IN  /\ serial' = wrapping_add_one(serial)
           /\ commits' = CountCommit(commits)
           /\ current' = promoted.current
           /\ fault' = promoted.fault
           /\ out' = Out(IF promoted.fault = "none" THEN "Ok" ELSE "panic",
                         <<ReqCommit(serial)>>, promoted.notifications)
    /\ UNCHANGED <<pending, im>>

\* the false arm of the three requests: Err(SubmitError::NotActive)
not_active ==
    /\ out' = Out("NotActive", << >>, << >>)
    /\ UNCHANGED <<pending, current, serial, im, fault, commits>>

IsRequest(op) == op.name \in {"commit_string", "delete_surrounding_text", "commit"}

\* the events the event thread delivers: well-formed ones
EventOps ==
    {Op(name, << >>, 0, 0) :
         name \in {"activate", "deactivate", "text_change_cause", "content_type",
                   "done", "unavailable"}}
        \cup {Op("surrounding_text", text, cursor, cursor) :
                  text \in Strings(MaxMetaLen), cursor \in 0..MaxMetaLen}

\* the requests and the reads a caller makes
CallerOps ==
    {Op("commit_string", CharA, 0, 0), Op("delete_surrounding_text", << >>, 1, 0),
     Op("delete_surrounding_text", << >>, 0, 1), Op("commit", << >>, 0, 0),
     Op("is_active", << >>, 0, 0), Op("get_surrounding_text", << >>, 0, 0)}

\* what the model lets thread t start in the state it finds
Startable(t, op) ==
    /\ op \in (IF t = "event" THEN EventOps ELSE CallerOps)
    /\ op.name = "surrounding_text" => op.n \in ValidCursors(op.text)
    /\ op.name = "commit_string" => Fits(op.text, MaxMetaLen)
    /\ op.name = "commit" => (current.active => CommitBudget)

\* the method of the invocation, run on the state as it is
Method(op) ==
    CASE op.name = "activate" -> handle_activate
      [] op.name = "deactivate" -> handle_deactivate
      [] op.name = "surrounding_text" -> handle_surrounding_text(op.text, op.n, op.m)
      [] op.name = "text_change_cause" -> handle_text_change_cause("InputMethod")
      [] op.name = "content_type" -> handle_content_type("None", "Normal")
      [] op.name = "done" -> handle_done
      [] op.name = "unavailable" -> handle_unavailable
      [] op.name = "is_active" -> IsActive
      [] op.name = "get_surrounding_text" -> GetSurroundingText

\* the arm of a request whose match on current.active came out true
ActiveArm(op) ==
    CASE op.name = "commit_string" -> commit_string_active(op.text)
      [] op.name = "delete_surrounding_text" ->
             delete_surrounding_text_active(op.n, op.m)
      [] op.name = "commit" -> commit_active

\* the whole request as one step
WholeRequest(op) ==
    CASE op.name = "commit_string" -> commit_string(op.text)
      [] op.name = "delete_surrounding_text" -> delete_surrounding_text(op.n, op.m)
      [] op.name = "commit" -> commit

\* t makes an invocation: it calls lock() and waits
Call(t) ==
    /\ thread[t].at = "idle"
    /\ thread' = [thread EXCEPT ![t] = [at |-> "waiting", op |-> NoOp]]
    /\ UNCHANGED <<pending, current, serial, im, out, fault, commits, lock>>

\* lock() that does not wait for the holder
Lock_without_waiting(t, op) ==
    /\ thread[t].at = "waiting"
    /\ fault = "none"
    /\ Startable(t, op)
    /\ lock' = t
    /\ thread' = [thread EXCEPT ![t] = [at |-> "locked", op |-> op]]
    /\ UNCHANGED <<pending, current, serial, im, out, fault, commits>>

\* lock() returns the guard: the Mutex is free and not poisoned
Lock(t, op) ==
    /\ thread[t].at = "waiting"
    /\ lock = "free"
    /\ fault = "none"
    /\ Startable(t, op)
    /\ lock' = t
    /\ thread' = [thread EXCEPT ![t] = [at |-> "locked", op |-> op]]
    /\ UNCHANGED <<pending, current, serial, im, out, fault, commits>>

\* lock() returns Err(PoisonError) after a panic under the Mutex, and
\* unwrap() panics
LockPoisoned(t) ==
    /\ thread[t].at = "waiting"
    /\ lock = "free"
    /\ fault # "none"
    /\ thread' = [thread EXCEPT ![t] = [at |-> "panicked", op |-> NoOp]]
    /\ UNCHANGED <<pending, current, serial, im, out, fault, commits, lock>>

\* match self.current.active of a request
Check(t) ==
    /\ thread[t].at = "locked"
    /\ IsRequest(thread[t].op)
    /\ thread' = [thread EXCEPT ![t].at =
                      IF current.active THEN "active" ELSE "inactive"]
    /\ UNCHANGED <<pending, current, serial, im, out, fault, commits, lock>>

\* the guard is dropped when the method returns or unwinds
Unlock(t) ==
    /\ lock' = "free"
    /\ thread' = [thread EXCEPT ![t] =
                      [at |-> IF fault' = "none" THEN "idle" ELSE "panicked",
                       op |-> NoOp]]

\* the rest of the method: the whole of it for a handler or a read, the arm
\* chosen for a request
Run(t) ==
    /\ \/ thread[t].at = "locked" /\ ~IsRequest(thread[t].op) /\ Method(thread[t].op)
       \/ thread[t].at = "active" /\ ActiveArm(thread[t].op)
       \/ thread[t].at = "inactive" /\ not_active
    /\ Unlock(t)

NextThreads ==
    \/ \E t \in Threads : Call(t)
    \/ \E t \in Threads : \E op \in EventOps \cup CallerOps : Lock(t, op)
    \/ \E t \in Threads : LockPoisoned(t)
    \/ \E t \in Threads : Check(t)
    \/ \E t \in Threads : Run(t)

SpecThreads == Init /\ [][NextThreads]_vars

\* every thread that holds the Mutex takes its next step, and a thread that
\* waits for the Mutex gets it if it is free again and again
FairThreads ==
    \A t \in Threads :
        /\ WF_vars(Check(t))
        /\ WF_vars(Run(t))
        /\ WF_vars(LockPoisoned(t))
        /\ SF_vars(\E op \in EventOps \cup CallerOps : Lock(t, op))

SpecThreadsFair == SpecThreads /\ FairThreads

(***************************************************************************)
(* Properties                                                              *)
(***************************************************************************)
\* a step of one of the three requests, with any argument
RequestStep ==
    \/ \E text \in CommitTexts(MaxLen) : commit_string(text)
    \/ \E before \in DeleteCounts, after \in DeleteCounts :
           delete_surrounding_text(before, after)
    \/ commit

\* a cursor that is in range and on a char boundary
ValidCursor(p) ==
    /\ p.cursor \in 0..Len(p.surrounding_text)
    /\ is_char_boundary(p.surrounding_text, p.cursor)

\* C1: while current.active is false, commit_string, delete_surrounding_text
\* and commit return NotActive, leave pending, current and serial as they
\* are, send no request and fire no notification.
C1_InactiveSessionLaw ==
    [][ (~current.active /\ RequestStep) =>
            /\ out'.result = "NotActive"
            /\ out'.requests = << >>
            /\ out'.notifications = << >>
            /\ pending' = pending
            /\ current' = current
            /\ serial' = serial ]_vars

\* a request was refused while an activate was waiting for its done
C1_Refused ==
    /\ ~current.active
    /\ pending.active
    /\ out.result = "NotActive"

\* C2: get_surrounding_text returns the split of current.surrounding_text at
\* current.cursor, whatever pending holds.
C2_ReadsCurrentOnly ==
    (fault = "none" /\ ValidCursor(current)) =>
        /\ ~get_surrounding_text_panics
        /\ get_surrounding_text = split_at(current.surrounding_text, current.cursor)

\* C3: the cursors of pending and of current are in range and on a char
\* boundary in every reachable state.
C3_CursorInvariant == ValidCursor(pending) /\ ValidCursor(current)

\* C4: with well-formed surrounding_text events and valid request texts, no
\* handler, request or read accessor panics.
C4_NoFault == fault = "none"

\* C5: the delete_surrounding_text request that is sent carries
\* min(before, pending.cursor) and min(after, len - pending.cursor) of the
\* pending state at call time, and the limit_before_after of lib.rs computes
\* the same pair.
C5_ClampLaw ==
    [][ \A before \in DeleteCounts, after \in DeleteCounts :
            (/\ out'.requests # << >>
             /\ out'.requests[1].req = "delete_surrounding_text"
             /\ delete_surrounding_text(before, after)) =>
                LET sent == out'.requests[1]
                    cursor == pending.cursor
                    rest == Len(pending.surrounding_text) - pending.cursor
                IN  /\ Len(out'.requests) = 1
                    /\ sent.req = "delete_surrounding_text"
                    /\ sent.before <= before /\ sent.before <= cursor
                    /\ sent.before = before \/ sent.before = cursor
                    /\ sent.after <= after /\ sent.after <= rest
                    /\ sent.after = after \/ sent.after = rest
                    /\ limit_before_after_lib(pending, before, after)
                           = <<sent.before, sent.after>> ]_vars

\* a delete request went out with `before` limited to the cursor
C5_Clamped ==
    /\ out.result = "Ok"
    /\ out.requests = <<ReqDelete(2, 0)>>

\* a step that promotes pending to current: a done event or a commit that
\* passed the active check
PromotionStep == handle_done \/ (current.active /\ commit)

IsTextChanged(n) == n.call = "text_changed"
IsVisibility(n) == n.call \in {"activate_im", "deactivate_im"}
IsHintPurpose(n) == n.call = "set_hint_purpose"

\* n modulo 2^32
Mod32(n) == [hi |-> n.hi % Limb, lo |-> n.lo]

\* C6: from an active session with pending = current and the text split
\* (L, R) at the cursor, commit_string(s) makes pending (L + s, R) and leaves
\* current alone, and the commit that follows makes get_surrounding_text
\* return the split of that pending state: (L + s, R).
C6_CommitStringThenCommit ==
    /\ [][ \A text \in CommitTexts(MaxLen) :
               (/\ current.active
                /\ pending = current
                /\ ValidCursor(current)
                /\ commit_string(text)) =>
                   LET halves == split_at(current.surrounding_text, current.cursor)
                   IN  /\ pending' = [current EXCEPT
                              !.surrounding_text = halves[1] \o text \o halves[2],
                              !.cursor = Len(halves[1]) + Len(text)]
                       /\ current' = current ]_vars
    /\ [][ (current.active /\ ValidCursor(pending) /\ commit) =>
               /\ fault' = "none"
               /\ ~get_surrounding_text_panics'
               /\ get_surrounding_text'
                      = split_at(pending.surrounding_text, pending.cursor) ]_vars

\* commit_string("a") has just run on an active session whose pending state
\* equalled current, with the cursor in front of "a": the commit comes next
C6_Typed ==
    /\ current = [IMProtocolState_default EXCEPT
           !.active = TRUE, !.surrounding_text = CharA]
    /\ pending = [current EXCEPT !.surrounding_text = CharA \o CharA, !.cursor = 1]
    /\ out = Out("Ok", <<ReqCommitString(CharA)>>, << >>)
    /\ fault = "none"

\* C7: every promotion calls text_changed exactly once if the text of current
\* before it differs from the text of pending, with the split of the new
\* current text at the new current cursor, and not at all otherwise.
C7_TextChangedPerPromotion ==
    [][ PromotionStep =>
            LET calls == SelectSeq(out'.notifications, IsTextChanged)
            IN  IF current.surrounding_text # pending.surrounding_text
                THEN /\ ValidCursor(current')
                     /\ calls = <<TextChanged(
                            split_at(current'.surrounding_text, current'.cursor)[1],
                            split_at(current'.surrounding_text, current'.cursor)[2])>>
                ELSE calls = << >> ]_vars

\* C8: a promotion that turns current.active on calls activate_im once and
\* never deactivate_im, one that turns it off calls deactivate_im once and
\* never activate_im, and one that leaves it alone calls neither, nor
\* set_hint_purpose.
C8_PromotionNotificationLaw ==
    [][ PromotionStep =>
            LET visibility == SelectSeq(out'.notifications, IsVisibility)
                hint_purpose == SelectSeq(out'.notifications, IsHintPurpose)
            IN  /\ (~current.active /\ current'.active) => visibility = <<ActivateIm>>
                /\ (current.active /\ ~current'.active) => visibility = <<DeactivateIm>>
                /\ (current.active = current'.active) =>
                       visibility = << >> /\ hint_purpose = << >> ]_vars

\* C9: the n-th commit that passes the active check, n counted from 0, sends
\* the serial n mod 2^32 and leaves the serial at (n + 1) mod 2^32; it returns
\* Ok also when the serial wraps.
C9_SerialLaw ==
    [][ (current.active /\ commit) =>
            /\ out'.requests = <<ReqCommit(Mod32(commits))>>
            /\ serial' = Mod32(CountCommit(commits))
            /\ ValidCursor(pending) => out'.result = "Ok" ]_vars

\* the commit after the one that carried 2^32 - 1 has carried serial 0
C9_Wrapped ==
    /\ commits = [hi |-> Limb, lo |-> 1]
    /\ out.result = "Ok"
    /\ out.requests = <<ReqCommit(Zero32)>>

\* C10: once unavailable has destroyed the protocol object, current.active
\* stays false and no request other than that destroy is sent.
C10_UnavailableIsTerminal ==
    im = "destroyed" =>
        /\ ~current.active
        /\ out.result \in {"none", "NotActive"}
        /\ \A i \in 1..Len(out.requests) : out.requests[i] = ReqDestroy

IsDestroy(r) == r.req = "destroy"

\* C11: destroy is sent at most once in the life of the service: no
\* invocation sends it once the protocol object has been destroyed, a further
\* unavailable event included, and no invocation sends it twice.
C11_DestroyAtMostOnce ==
    [][ LET destroys == SelectSeq(out'.requests, IsDestroy)
        IN  /\ Len(destroys) <= 1
            /\ im = "destroyed" => destroys = << >> ]_vars

\* C13: a read (is_active or get_surrounding_text) changes neither pending,
\* current nor serial and sends and fires nothing, so the read that follows
\* it with nothing in between returns what it returned: the same pair and
\* the same flag, and it returns if the first one did.
C13_ReadsAreIdempotent ==
    [][ (IsActive \/ GetSurroundingText) =>
            /\ pending' = pending
            /\ current' = current
            /\ serial' = serial
            /\ im' = im
            /\ out' = out \/ (out'.requests = << >> /\ out'.notifications = << >>)
            /\ is_active' = is_active
            /\ get_surrounding_text_panics' = get_surrounding_text_panics
            /\ ~get_surrounding_text_panics =>
                   get_surrounding_text' = get_surrounding_text ]_vars

\* get_surrounding_text returns a pair of two non-empty halves while pending
\* holds an edit that current does not
C13_Readable ==
    /\ fault = "none"
    /\ pending.surrounding_text # current.surrounding_text
    /\ ~get_surrounding_text_panics
    /\ get_surrounding_text = <<CharA, CharA>>

\* C15: on an active session delete_surrounding_text removes from the pending
\* text exactly as many bytes before the cursor and after it as the counts of
\* the request it sends say, and moves the cursor back by the count before.
C15_DeleteRemovesSentBytes ==
    [][ \A before \in DeleteCounts, after \in DeleteCounts :
            (/\ current.active
             /\ ValidCursor(pending)
             /\ delete_surrounding_text(before, after)) =>
                LET sent == out'.requests[1]
                    text == pending.surrounding_text
                    cursor == pending.cursor
                IN  /\ out'.result = "Ok"
                    /\ Len(out'.requests) = 1
                    /\ sent.req = "delete_surrounding_text"
                    /\ pending'.surrounding_text =
                           SubSeq(text, 1, cursor - sent.before)
                               \o SubSeq(text, cursor + sent.after + 1, Len(text))
                    /\ pending'.cursor = cursor - sent.before ]_vars

\* C16: on an active session commit_string(text) returns Ok, sends one
\* commit_string request with the text, fires nothing, leaves current and
\* serial alone and changes of pending only the text, to left + text + right
\* of the old split at the old cursor, and the cursor, by len(text).
C16_CommitStringFrame ==
    [][ \A text \in CommitTexts(MaxLen) :
            (current.active /\ commit_string(text)) =>
                /\ out' = Out("Ok", <<ReqCommitString(text)>>, << >>)
                /\ current' = current
                /\ serial' = serial
                /\ ValidCursor(pending)
                /\ LET halves == split_at(pending.surrounding_text, pending.cursor)
                   IN  pending' = [pending EXCEPT
                           !.surrounding_text = halves[1] \o text \o halves[2],
                           !.cursor = pending.cursor + Len(text)] ]_vars

\* the pending state that handle_activate builds
FreshActive == [IMProtocolState_default EXCEPT !.active = TRUE]

\* C17: an activate event makes pending the default state with active = true
\* whatever pending held, and changes nothing else; the commit that comes
\* next on an active session makes that fresh state the current one, so the
\* edits that were pending before the activate are gone.
C17_ActivateResetsPending ==
    /\ [][ handle_activate =>
               /\ pending' = FreshActive
               /\ current' = current
               /\ serial' = serial
               /\ out' = NoOut ]_vars
    /\ [][ (current.active /\ pending = FreshActive /\ commit) =>
               /\ out'.result = "Ok"
               /\ current' = FreshActive
               /\ pending' = FreshActive
               /\ ~get_surrounding_text_panics'
               /\ get_surrounding_text' = << << >>, << >> >> ]_vars

\* an activate has arrived on an active session that shows "a" with its own
\* content type and change cause: pending is fresh, the commit comes next
C17_Discarded ==
    /\ current = [surrounding_text  |-> CharA,
                  cursor            |-> 1,
                  content_hint      |-> "Completion",
                  content_purpose   |-> "Password",
                  text_change_cause |-> "Other",
                  active            |-> TRUE]
    /\ pending = FreshActive
    /\ out = NoOut
    /\ fault = "none"

\* every field of pending outside `fields` is as it was
PendingFrame(fields) ==
    \A f \in (DOMAIN pending) \ fields : pending'[f] = pending[f]

\* current and serial are as they were, nothing was sent and nothing fired
NothingButPending ==
    /\ current' = current
    /\ serial' = serial
    /\ im' = im
    /\ out'.requests = << >>
    /\ out'.notifications = << >>

\* C18: the activate, deactivate, surrounding_text, text_change_cause and
\* content_type handlers leave current and serial alone, send nothing and
\* fire nothing; deactivate changes only pending.active, surrounding_text only
\* the pending text and cursor, text_change_cause only the cause and
\* content_type only hint and purpose.  (An event handler's step is told by
\* the handler run on the values that pending holds after the step.)
C18_HandlerFrame ==
    [][ /\ handle_activate => NothingButPending
        /\ handle_deactivate =>
               /\ NothingButPending
               /\ ~pending'.active
               /\ PendingFrame({"active"})
        /\ handle_surrounding_text(pending'.surrounding_text,
                                   pending'.cursor, pending'.cursor) =>
               /\ NothingButPending
               /\ PendingFrame({"surrounding_text", "cursor"})
        /\ handle_text_change_cause(pending'.text_change_cause) =>
               /\ NothingButPending
               /\ PendingFrame({"text_change_cause"})
        /\ handle_content_type(pending'.content_hint, pending'.content_purpose) =>
               /\ NothingButPending
               /\ PendingFrame({"content_hint", "content_purpose"}) ]_vars

\* a deactivate has arrived on an active session and pending keeps the text,
\* the content type and the change cause that the events before it set
C18_DeactivatedOnly ==
    /\ current.active
    /\ pending = [surrounding_text  |-> CharA,
                  cursor            |-> 1,
                  content_hint      |-> "Completion",
                  content_purpose   |-> "Password",
                  text_change_cause |-> "Other",
                  active            |-> FALSE]
    /\ out = NoOut
    /\ fault = "none"

\* C19: the serial is 0 until the first commit request is sent; it changes
\* only in a commit that passes the active check, which sends the old serial
\* and leaves the serial one higher modulo 2^32; events (done and unavailable
\* included), commit_string, delete_surrounding_text, the reads and a commit
\* that returns NotActive leave it as it is.
C19_SerialFrame ==
    /\ [](commits = Zero32 => serial = Zero32)
    /\ [][ /\ serial' # serial =>
                  /\ current.active
                  /\ commit
                  /\ out'.result # "NotActive"
                  /\ out'.requests = <<ReqCommit(serial)>>
           /\ (current.active /\ commit) => serial' = wrapping_add_one(serial)
           /\ (~current.active /\ commit) => serial' = serial ]_vars

\* a done event has promoted a text after the first commit and the serial is
\* still 1
C19_DoneAfterCommit ==
    /\ serial = [hi |-> 0, lo |-> 1]
    /\ out = Out("none", << >>, <<TextChanged(CharA, << >>)>>)
    /\ fault = "none"

\* C20: after a promotion (a done event or a commit that passed the active
\* check) current equals pending in every field and pending is as it was; so
\* a promotion from a state where current equals pending changes neither,
\* fires nothing and cannot panic, and if it is a commit it still sends a
\* commit request with the serial and moves the serial on.
C20_PromotionCopiesPending ==
    [][ /\ PromotionStep =>
               /\ current' = pending
               /\ pending' = pending
        /\ (PromotionStep /\ current = pending) =>
               /\ current' = current
               /\ out'.notifications = << >>
               /\ fault' = "none"
        /\ (current.active /\ current = pending /\ commit) =>
               /\ out' = Out("Ok", <<ReqCommit(serial)>>, << >>)
               /\ serial' = wrapping_add_one(serial) ]_vars

\* the second commit in a row has sent serial 1 and fired nothing; current
\* and pending hold the same text, content type and change cause
C20_SecondCommit ==
    /\ out = Out("Ok", <<ReqCommit([hi |-> 0, lo |-> 1])>>, << >>)
    /\ current = pending
    /\ current = [surrounding_text  |-> CharA,
                  cursor            |-> 1,
                  content_hint      |-> "Completion",
                  content_purpose   |-> "Password",
                  text_change_cause |-> "Other",
                  active            |-> TRUE]
    /\ fault = "none"

\* inside the critical section: between lock() and the drop of the guard
InCritical(t) == thread[t].at \in {"locked", "active", "inactive"}

\* the state of the service, without the threads
service == <<pending, current, serial, im, out, fault, commits>>

\* C12: at most one thread is inside an invocation and it holds the Mutex;
\* the state of the service changes only in the last step of the holder; that
\* step, taken on the state the holder found when it got the Mutex, is the
\* whole handler, request or read as one step, so the run is a sequence of
\* whole operations in the order of these steps; and commit_string,
\* delete_surrounding_text and commit send their request only while
\* current.active is true.
C12_MutualExclusion ==
    /\ [](\A t \in Threads : InCritical(t) <=> lock = t)
    /\ [][ /\ service' # service => lock \in Threads /\ Run(lock)
           /\ \A t \in Threads :
                  Run(t) =>
                      /\ IF IsRequest(thread[t].op)
                         THEN WholeRequest(thread[t].op)
                         ELSE Method(thread[t].op)
                      /\ (IsRequest(thread[t].op) /\ out'.requests # << >>) =>
                             current.active ]_vars

\* a caller has passed the active check of its request and holds the Mutex
\* while the event thread and the other caller wait for it
C12_Contended ==
    /\ lock = "caller1"
    /\ thread["caller1"].at = "active"
    /\ thread["caller1"].op.name = "commit"
    /\ thread["event"].at = "waiting"
    /\ thread["caller2"].at = "waiting"
    /\ pending.surrounding_text # current.surrounding_text

\* the holder of the Mutex gives it back: no invocation keeps it for ever
HolderReleases == \A t \in Threads : (lock = t) ~> (lock # t)

\* a thread that waits for the Mutex stops waiting: it gets the guard, or the
\* PoisonError that makes its unwrap() panic
WaitingEnds ==
    \A t \in Threads :
        (thread[t].at = "waiting") ~> (InCritical(t) \/ thread[t].at = "panicked")

\* C14: under fair scheduling the holder of the Mutex always completes and
\* releases it, and every invocation that waits for the Mutex gets to run.
C14_WaitingRuns ==
    /\ HolderReleases
    /\ \A t \in Threads : (thread[t].at = "waiting") ~> InCritical(t)

\* the place of a notification in the order of pending_becomes_current
NotificationRank(n) ==
    CASE n.call = "text_changed" -> 1
      [] n.call \in {"activate_im", "deactivate_im"} -> 2
      [] n.call = "set_hint_purpose" -> 3

\* C21: the notifications of one promotion come in the order text_changed,
\* then activate_im (or deactivate_im), then set_hint_purpose, each at most
\* once; they are computed from the state that was promoted: text_changed
\* carries the split of the new current text at the new current cursor and
\* set_hint_purpose, which follows activate_im directly, the new current
\* content_hint and content_purpose; so current, its active flag included,
\* holds the promoted state when text_changed is delivered and activate_im
\* comes after it.
C21_NotificationOrder ==
    [][ PromotionStep =>
            LET calls == out'.notifications
            IN  /\ current' = pending
                /\ \A i, j \in 1..Len(calls) :
                       i < j => NotificationRank(calls[i]) < NotificationRank(calls[j])
                /\ \A i \in 1..Len(calls) :
                       /\ calls[i].call = "text_changed" =>
                              /\ ValidCursor(current')
                              /\ <<calls[i].left, calls[i].right>> =
                                     split_at(current'.surrounding_text, current'.cursor)
                       /\ calls[i].call = "activate_im" =>
                              /\ current'.active
                              /\ i < Len(calls)
                              /\ calls[i + 1] = SetHintPurpose(current'.content_hint,
                                                               current'.content_purpose)
                       /\ calls[i].call = "set_hint_purpose" =>
                              i > 1 /\ calls[i - 1] = ActivateIm ]_vars

\* a done event has promoted a text and an activation with its content type:
\* text_changed, activate_im and set_hint_purpose were fired, in this order
C21_TextThenActivate ==
    /\ out = Out("none", << >>,
                 <<TextChanged(CharA, << >>), ActivateIm,
                   SetHintPurpose("Completion", "Password")>>)
    /\ current.active
    /\ current.surrounding_text = CharA

\* C22: the session starts with current.active false; an activate event on
\* an inactive session leaves is_active() false, and while it is false the
\* three requests return NotActive and only a done event can make it true;
\* the done that follows the activate makes is_active() true, and the
\* requests made then return Ok.
C22_ActivateNeedsDone ==
    /\ (commits = Zero32 /\ out = NoOut /\ pending = IMProtocolState_default)
           => ~is_active
    /\ [][ /\ (~current.active /\ handle_activate) =>
                  ~is_active' /\ pending'.active
           /\ (~current.active /\ RequestStep) => out'.result = "NotActive"
           /\ (~current.active /\ current'.active) => handle_done
           /\ (~current.active /\ pending = FreshActive /\ handle_done) =>
                  /\ is_active'
                  /\ fault' = "none"
                  /\ current' = FreshActive
           /\ (current = FreshActive /\ pending = FreshActive /\ RequestStep) =>
                  out'.result = "Ok" ]_vars

\* the first request after activate and done has returned Ok
C22_Enabled ==
    /\ current = FreshActive
    /\ out = Out("Ok", <<ReqCommitString(CharA)>>, << >>)
    /\ pending.surrounding_text = CharA
    /\ serial = Zero32

IsDeactivateIm(n) == n.call = "deactivate_im"

\* the last invocation turned current.active off: it fired deactivate_im
JustDeactivated == SelectSeq(out.notifications, IsDeactivateIm) # << >>

\* the same, for the promotion of a deactivate event only
DeactivatePromoted == JustDeactivated /\ out.requests # <<ReqDestroy>>

\* a promotion that follows the promotion of a deactivate event, with no
\* event in between, leaves current.active false
DeactivateStays ==
    [][ (DeactivatePromoted /\ PromotionStep) => ~current'.active ]_vars

\* C23: when current.active has just become false, by the promotion of a
\* deactivate or by unavailable, a promotion that comes before any further
\* event (so without a fresh activate) leaves current.active false.
C23_NoReactivationWithoutActivate ==
    [][ (JustDeactivated /\ PromotionStep) => ~current'.active ]_vars

\* C24: an unavailable event sends destroy and nothing else, makes
\* current.active false, fires deactivate_im and nothing else, and leaves the
\* other fields of current, the serial and the whole of pending, its active
\* flag included, as they were.
C24_UnavailableFrame ==
    [][ handle_unavailable =>
            /\ out'.requests = <<ReqDestroy>>
            /\ out'.notifications = <<DeactivateIm>>
            /\ ~current'.active
            /\ \A f \in (DOMAIN current) \ {"active"} : current'[f] = current[f]
            /\ serial' = serial
            /\ pending' = pending
            /\ fault' = "none" ]_vars

\* an unavailable event has ended an active session: current keeps its text
\* and content type and pending is still active
C24_TornDown ==
    /\ out = Out("none", <<ReqDestroy>>, <<DeactivateIm>>)
    /\ current = [surrounding_text  |-> CharA,
                  cursor            |-> 1,
                  content_hint      |-> "Completion",
                  content_purpose   |-> "Password",
                  text_change_cause |-> "Other",
                  active            |-> FALSE]
    /\ pending = [current EXCEPT !.active = TRUE]
    /\ serial = [hi |-> 0, lo |-> 1]

\* C25: a surrounding_text event whose cursor is past the end of its text or
\* inside a char ends the session as unavailable does: destroy is sent,
\* current.active is false afterwards, and the cursor is not stored in
\* pending.
C25_MalformedCursorIsFatal ==
    [][ \A text \in Strings(MaxLen) : \A cursor \in ServerCursors(text) :
            (/\ cursor \notin ValidCursors(text)
             /\ handle_surrounding_text(text, cursor, cursor)) =>
                /\ out'.requests = <<ReqDestroy>>
                /\ ~current'.active
                /\ ~(pending'.surrounding_text = text /\ pending'.cursor = cursor) ]_vars

\* C26: the session starts inactive with nothing shown, and every invocation
\* that completes keeps the visibility connector in step with
\* current.active: if it changes current.active it fires a visibility
\* notification, and the last visibility notification it fires, if any, is
\* activate_im exactly if current.active is true afterwards.  So after every
\* completed invocation the most recent visibility notification is
\* activate_im if and only if current.active is true.
C26_VisibilityTracksActive ==
    /\ Init => ~current.active /\ out.notifications = << >>
    /\ [][ fault' = "none" =>
               LET visibility == SelectSeq(out'.notifications, IsVisibility)
               IN  /\ current'.active # current.active => visibility # << >>
                   /\ visibility # << >> =>
                          (visibility[Len(visibility)] = ActivateIm <=> current'.active) ]_vars

\* a done event after unavailable has made the session active again and has
\* fired activate_im
C26_ShownAgain ==
    /\ im = "destroyed"
    /\ current.active
    /\ out = Out("none", << >>, <<ActivateIm, SetHintPurpose("None", "Normal")>>)

\* C27: a promotion that changes the pair get_surrounding_text returns, be it
\* by a new text or by a new cursor in the same text, calls text_changed with
\* the new pair.
C27_PairChangeIsNotified ==
    [][ (/\ PromotionStep
         /\ ~get_surrounding_text_panics
         /\ ~get_surrounding_text_panics'
         /\ get_surrounding_text' # get_surrounding_text) =>
            \E i \in 1..Len(out'.notifications) :
                out'.notifications[i] =
                    TextChanged(get_surrounding_text'[1], get_surrounding_text'[2]) ]_vars

\* C28: with a deactivate event received and not promoted yet (current.active
\* true, pending.active false) commit returns Ok, sends the commit request
\* with the serial, moves the serial on by one, makes current.active false
\* and fires deactivate_im once and activate_im never; the requests that
\* follow, current.active being false, return NotActive.
C28_CommitPromotesDeactivate ==
    [][ /\ (current.active /\ ~pending.active /\ commit) =>
               /\ out'.result = "Ok"
               /\ out'.requests = <<ReqCommit(serial)>>
               /\ serial' = wrapping_add_one(serial)
               /\ ~current'.active
               /\ SelectSeq(out'.notifications, IsVisibility) = <<DeactivateIm>>
        /\ (~current.active /\ RequestStep) => out'.result = "NotActive" ]_vars

=============================================================================
